---------------------------- MODULE Spec2Model ----------------------------
(***************************************************************************)
(* TravelPassFHE: batch lifecycle, per-user submissions, cooldowns and the *)
(* decryption request / callback protocol of the contract in               *)
(* src/unnamed/part_000.  Every external function is one atomic action; a   *)
(* reverting call changes nothing but the observed outcome `result`.       *)
(***************************************************************************)
EXTENDS Integers, Sequences, FiniteSets, TLC

(***************************************************************************)
(* Bounds of the model.                                                    *)
(***************************************************************************)
MaxBatch == 3        \* the batch counter stops at this id
MaxHandle == 1       \* euint32 handles 0..MaxHandle, 0 is the unset handle
MaxReq == 2          \* the oracle hands out request ids 0..MaxReq-1
MaxTick == 2         \* block.timestamp advances by at most MaxTick units
TickUnit == 15       \* seconds per unit of block.timestamp advance
Genesis == 100       \* block.timestamp of the deployment

(***************************************************************************)
(* Program constants.                                                      *)
(***************************************************************************)
DefaultCooldown == 30
InitialBatchId == 1

Addr == {"a1", "a2"}
Deployer == "a1"
NewCooldowns == {0, TickUnit, DefaultCooldown}
StoredBatchIds == 1..MaxBatch
ForBatchIds == 0..MaxBatch
ReqIds == 0..MaxReq
Handles == 0..MaxHandle
Attributes == {"Nationality", "VisaStatus"}
ActionKinds == {"submission", "decryptionRequest"}

VARIABLES
    owner,                      \* address public owner
    isProvider,                 \* mapping(address => bool)
    paused,                     \* the pause flag read by whenNotPaused
    cooldownSeconds,            \* uint256 public cooldownSeconds
    currentBatchId,             \* uint256 public currentBatchId
    batches,                    \* mapping(uint256 => Batch)
    userPassportData,           \* mapping(uint256 => mapping(address => PassportData))
    hasSubmittedForBatch,       \* mapping(uint256 => mapping(address => bool))
    lastSubmissionTime,         \* mapping(address => uint256)
    lastDecryptionRequestTime,  \* mapping(address => uint256)
    decryptionContexts,         \* mapping(uint256 => DecryptionContext)
    requestCounter,             \* the oracle's next request id
    now,                        \* block.timestamp
    result,                     \* outcome of the last external call
    submitted,                  \* history: successful submits per (batch, user)
    completed,                  \* history: successful callbacks per request id
    delivered,                  \* history: callbacks delivered per issued request id (capped at 2)
    gated                       \* history: per action kind and user, the time of the last
                                \* successful gated action and their number (capped at 2)

storage == <<owner, isProvider, paused, cooldownSeconds, currentBatchId, batches,
             userPassportData, hasSubmittedForBatch, lastSubmissionTime,
             lastDecryptionRequestTime, decryptionContexts>>
history == <<submitted, completed, delivered, gated>>
vars == <<storage, requestCounter, now, result, history>>

(***************************************************************************)
(* Default (zero) values of the storage structs.                           *)
(***************************************************************************)
ZeroBatch == [isOpen |-> FALSE, createdAt |-> 0, closedAt |-> 0]
ZeroPassportData == [encryptedNationality |-> 0, encryptedVisaExpiryTimestamp |-> 0]
ZeroContext == [batchId |-> 0, stateHash |-> 0, processed |-> FALSE]

(***************************************************************************)
(* The FHE library as the contract uses it.  A handle is initialized iff   *)
(* it is non-zero; eq and ge return a non-zero ebool handle determined by  *)
(* the operation and its operands.                                         *)
(***************************************************************************)
isInitialized(h) == h # 0
HandleBase == MaxHandle + 1
fheEq(a, b) == 1 + a * HandleBase + b
fheGe(a, b) == 1 + HandleBase * HandleBase + a * HandleBase + b
toBytes32(h) == h
WordBase == 2 * HandleBase * HandleBase + 1

(***************************************************************************)
(* keccak256(abi.encode(cts, address(this))): collision free, never zero.  *)
(* address(this) is the same for every call of the one instance modelled.  *)
(***************************************************************************)
RECURSIVE abiEncode(_)
abiEncode(cts) ==
    IF cts = <<>> THEN 0 ELSE 1 + cts[1] + (WordBase + 1) * abiEncode(Tail(cts))
keccak256(data) == 1 + data
_hashCiphertexts(cts) == keccak256(abiEncode(cts))

\* _rebuildStateHashForCallback returning the dummy word itself, unhashed.
_rebuildStateHashForCallback_Unhashed(requestId) == 0

\* _rebuildStateHashForCallback answering with the hash stored at request time.
_rebuildStateHashForCallback_Stored(requestId) == decryptionContexts[requestId].stateHash

_rebuildStateHashForCallback(requestId) == _hashCiphertexts(<<0>>)

(***************************************************************************)
(* Outcome of an external call: the function, its arguments, the revert    *)
(* reason ("ok" when it returns) and the event it emits.                   *)
(***************************************************************************)
Outcome(op, err, event) ==
    [op |-> op, err |-> err, event |-> IF err = "ok" THEN event ELSE "none"]

\* A call that reverts: nothing but the observed outcome changes.
Reverted(o) ==
    /\ result' = o
    /\ UNCHANGED <<storage, requestCounter, now, history>>

\* A call that returns.
Returned(o) ==
    /\ result' = o
    /\ UNCHANGED now

\* History counters saturate at 2.
Bump(n) == IF n < 2 THEN n + 1 ELSE n

\* History: user has completed one more gated action of the kind, now.
Gate(kind, user) ==
    [gated EXCEPT ![kind][user] = [last |-> now, count |-> Bump(@.count)]]

(***************************************************************************)
(* Modifiers.                                                              *)
(***************************************************************************)
\* onlyOwner that lets every sender through.
onlyOwner_Off(sender) == TRUE

onlyOwner(sender) == sender = owner
onlyProvider(sender) == isProvider[sender]
\* whenNotPaused that never looks at the flag.
whenNotPaused_Off == TRUE

whenNotPaused == ~paused

\* respectCooldown with the cooldown left out of the comparison.
respectCooldown_NoInterval(user, lastActionTime) ==
    ~(now < lastActionTime[user])

\* respectCooldown that lets every call through.
respectCooldown_Off(user, lastActionTime) == TRUE

\* respectCooldown reading one clock shared by every user.
respectCooldown_Shared(user, lastActionTime) ==
    \A u \in Addr : ~(now < lastActionTime[u] + cooldownSeconds)

respectCooldown(user, lastActionTime) ==
    ~(now < lastActionTime[user] + cooldownSeconds)

\* _openNewBatch / _closeBatch on the batch table
\* _openNewBatch taking the lowest id that is not open instead of the given one.
_openNewBatch_LowestFree(bs, batchId) ==
    LET free == {b \in DOMAIN bs : ~bs[b].isOpen}
        lowest == CHOOSE b \in free : \A c \in free : b <= c
    IN  [bs EXCEPT ![lowest] = [isOpen |-> TRUE, createdAt |-> now, closedAt |-> 0]]

_openNewBatch(bs, batchId) ==
    [bs EXCEPT ![batchId] = [isOpen |-> TRUE, createdAt |-> now, closedAt |-> 0]]

\* _closeBatch without the check that the batch is open.
_closeBatchRevert_NoCheck(batchId) == "ok"

_closeBatchRevert(batchId) ==
    IF ~batches[batchId].isOpen THEN "BatchClosed" ELSE "ok"

\* _closeBatch closing every batch that is open, up to the given id.
_closeBatch_AllOpen(bs, batchId) ==
    [b \in DOMAIN bs |->
        IF b <= batchId /\ bs[b].isOpen
        THEN [bs[b] EXCEPT !.isOpen = FALSE, !.closedAt = now]
        ELSE bs[b]]

_closeBatch(bs, batchId) ==
    [bs EXCEPT ![batchId].isOpen = FALSE, ![batchId].closedAt = now]

Init ==
    /\ now = Genesis
    /\ owner = Deployer
    /\ isProvider = [a \in Addr |-> FALSE]
    /\ paused = FALSE
    /\ cooldownSeconds = DefaultCooldown
    /\ currentBatchId = InitialBatchId
    /\ batches = _openNewBatch([b \in StoredBatchIds |-> ZeroBatch], InitialBatchId)
    /\ userPassportData = [b \in StoredBatchIds |-> [u \in Addr |-> ZeroPassportData]]
    /\ hasSubmittedForBatch = [b \in StoredBatchIds |-> [u \in Addr |-> FALSE]]
    /\ lastSubmissionTime = [u \in Addr |-> 0]
    /\ lastDecryptionRequestTime = [u \in Addr |-> 0]
    /\ decryptionContexts = [r \in ReqIds |-> ZeroContext]
    /\ requestCounter = 0
    /\ result = Outcome("constructor", "ok", "BatchOpened")
    /\ submitted = [b \in StoredBatchIds |-> [u \in Addr |-> 0]]
    /\ completed = [r \in ReqIds |-> 0]
    /\ delivered = [r \in ReqIds |-> 0]
    /\ gated = [k \in ActionKinds |-> [u \in Addr |-> [last |-> 0, count |-> 0]]]

(***************************************************************************)
(* AccessControl                                                           *)
(***************************************************************************)
transferOwnershipRevert(sender, newOwner) ==
    IF ~onlyOwner(sender) THEN "NotOwner" ELSE "ok"

transferOwnership(sender, newOwner) ==
    LET o == Outcome("transferOwnership", transferOwnershipRevert(sender, newOwner), "OwnershipTransferred")
    IN  IF o.err # "ok" THEN Reverted(o)
        ELSE
           /\ Returned(o)
           /\ owner' = newOwner
           /\ UNCHANGED <<isProvider, paused, cooldownSeconds, currentBatchId, batches,
                          userPassportData, hasSubmittedForBatch, lastSubmissionTime,
                          lastDecryptionRequestTime, decryptionContexts,
                          requestCounter, history>>

\* addProvider without the check for an already authorized provider.
addProviderRevert_NoDuplicateCheck(sender, provider) ==
    IF ~onlyOwner(sender) THEN "NotOwner" ELSE "ok"

addProviderRevert(sender, provider) ==
    IF ~onlyOwner(sender) THEN "NotOwner"
    ELSE IF isProvider[provider] THEN "DuplicateProvider"
    ELSE "ok"

addProvider(sender, provider) ==
    LET o == Outcome("addProvider", addProviderRevert(sender, provider), "ProviderAdded")
    IN  IF o.err # "ok" THEN Reverted(o)
        ELSE
           /\ Returned(o)
           /\ isProvider' = [isProvider EXCEPT ![provider] = TRUE]
           /\ UNCHANGED <<owner, paused, cooldownSeconds, currentBatchId, batches,
                          userPassportData, hasSubmittedForBatch, lastSubmissionTime,
                          lastDecryptionRequestTime, decryptionContexts,
                          requestCounter, history>>

removeProviderRevert(sender, provider) ==
    IF ~onlyOwner(sender) THEN "NotOwner"
    ELSE IF ~isProvider[provider] THEN "ProviderNotAdded"
    ELSE "ok"

removeProvider(sender, provider) ==
    LET o == Outcome("removeProvider", removeProviderRevert(sender, provider), "ProviderRemoved")
    IN  IF o.err # "ok" THEN Reverted(o)
        ELSE
           /\ Returned(o)
           /\ isProvider' = [isProvider EXCEPT ![provider] = FALSE]
           /\ UNCHANGED <<owner, paused, cooldownSeconds, currentBatchId, batches,
                          userPassportData, hasSubmittedForBatch, lastSubmissionTime,
                          lastDecryptionRequestTime, decryptionContexts,
                          requestCounter, history>>

\* setCooldown without the check for a zero cooldown.
setCooldownRevert_NoZeroCheck(sender, newCooldownSeconds) ==
    IF ~onlyOwner(sender) THEN "NotOwner" ELSE "ok"

setCooldownRevert(sender, newCooldownSeconds) ==
    IF ~onlyOwner(sender) THEN "NotOwner"
    ELSE IF newCooldownSeconds = 0 THEN "InvalidCooldown"
    ELSE "ok"

\* setCooldown that also restarts every user's cooldown clocks.
setCooldown_ResetsClocks(sender, newCooldownSeconds) ==
    LET o == Outcome("setCooldown", setCooldownRevert(sender, newCooldownSeconds), "CooldownSet")
    IN  IF o.err # "ok" THEN Reverted(o)
        ELSE
           /\ Returned(o)
           /\ cooldownSeconds' = newCooldownSeconds
           /\ lastSubmissionTime' = [u \in Addr |-> 0]
           /\ lastDecryptionRequestTime' = [u \in Addr |-> 0]
           /\ UNCHANGED <<owner, isProvider, paused, currentBatchId, batches,
                          userPassportData, hasSubmittedForBatch, decryptionContexts,
                          requestCounter, history>>

setCooldown(sender, newCooldownSeconds) ==
    LET o == Outcome("setCooldown", setCooldownRevert(sender, newCooldownSeconds), "CooldownSet")
    IN  IF o.err # "ok" THEN Reverted(o)
        ELSE
           /\ Returned(o)
           /\ cooldownSeconds' = newCooldownSeconds
           /\ UNCHANGED <<owner, isProvider, paused, currentBatchId, batches,
                          userPassportData, hasSubmittedForBatch, lastSubmissionTime,
                          lastDecryptionRequestTime, decryptionContexts,
                          requestCounter, history>>

\* _pause / _unpause and the flag itself are not in the source file.
_pause == TRUE
_unpause == FALSE

pauseRevert(sender) == IF ~onlyOwner(sender) THEN "NotOwner" ELSE "ok"

pause(sender) ==
    LET o == Outcome("pause", pauseRevert(sender), "ContractPaused")
    IN  IF o.err # "ok" THEN Reverted(o)
        ELSE
           /\ Returned(o)
           /\ paused' = _pause
           /\ UNCHANGED <<owner, isProvider, cooldownSeconds, currentBatchId, batches,
                          userPassportData, hasSubmittedForBatch, lastSubmissionTime,
                          lastDecryptionRequestTime, decryptionContexts,
                          requestCounter, history>>

unpause(sender) ==
    LET o == Outcome("unpause", pauseRevert(sender), "ContractUnpaused")
    IN  IF o.err # "ok" THEN Reverted(o)
        ELSE
           /\ Returned(o)
           /\ paused' = _unpause
           /\ UNCHANGED <<owner, isProvider, cooldownSeconds, currentBatchId, batches,
                          userPassportData, hasSubmittedForBatch, lastSubmissionTime,
                          lastDecryptionRequestTime, decryptionContexts,
                          requestCounter, history>>

(***************************************************************************)
(* BatchManager                                                            *)
(***************************************************************************)
\* openNewBatch behind whenNotPaused as well.
openNewBatchRevert_WhenNotPaused(sender) ==
    IF ~onlyOwner(sender) THEN "NotOwner"
    ELSE IF ~whenNotPaused THEN "Paused"
    ELSE "ok"

openNewBatchRevert(sender) == IF ~onlyOwner(sender) THEN "NotOwner" ELSE "ok"

\* openNewBatch opening the current id again instead of the next one.
openNewBatch_NoIncrement(sender) ==
    LET o == Outcome("openNewBatch", openNewBatchRevert(sender), "BatchOpened")
    IN  IF o.err # "ok" THEN Reverted(o)
        ELSE
           /\ Returned(o)
           /\ batches' = _openNewBatch(batches, currentBatchId)
           /\ UNCHANGED <<owner, isProvider, paused, cooldownSeconds, currentBatchId,
                          userPassportData, hasSubmittedForBatch, lastSubmissionTime,
                          lastDecryptionRequestTime, decryptionContexts,
                          requestCounter, history>>

\* openNewBatch opening the current id when that id was never opened.
openNewBatch_ReuseReserved(sender) ==
    LET o == Outcome("openNewBatch", openNewBatchRevert(sender), "BatchOpened")
        target == IF batches[currentBatchId] = ZeroBatch THEN currentBatchId
                  ELSE currentBatchId + 1
    IN  IF o.err # "ok" THEN Reverted(o)
        ELSE
           /\ target <= MaxBatch
           /\ Returned(o)
           /\ currentBatchId' = target
           /\ batches' = _openNewBatch(batches, target)
           /\ UNCHANGED <<owner, isProvider, paused, cooldownSeconds,
                          userPassportData, hasSubmittedForBatch, lastSubmissionTime,
                          lastDecryptionRequestTime, decryptionContexts,
                          requestCounter, history>>

openNewBatch(sender) ==
    LET o == Outcome("openNewBatch", openNewBatchRevert(sender), "BatchOpened")
    IN  IF o.err # "ok" THEN Reverted(o)
        ELSE
           /\ currentBatchId < MaxBatch
           /\ Returned(o)
           /\ currentBatchId' = currentBatchId + 1
           /\ batches' = _openNewBatch(batches, currentBatchId + 1)
           /\ UNCHANGED <<owner, isProvider, paused, cooldownSeconds,
                          userPassportData, hasSubmittedForBatch, lastSubmissionTime,
                          lastDecryptionRequestTime, decryptionContexts,
                          requestCounter, history>>

closeCurrentBatchRevert(sender) ==
    IF ~onlyOwner(sender) THEN "NotOwner" ELSE _closeBatchRevert(currentBatchId)

closeCurrentBatch(sender) ==
    LET o == Outcome("closeCurrentBatch", closeCurrentBatchRevert(sender), "BatchClosed")
    IN  IF o.err # "ok" THEN Reverted(o)
        ELSE
           /\ currentBatchId < MaxBatch
           /\ Returned(o)
           /\ batches' = _closeBatch(batches, currentBatchId)
           /\ currentBatchId' = currentBatchId + 1
           /\ UNCHANGED <<owner, isProvider, paused, cooldownSeconds,
                          userPassportData, hasSubmittedForBatch, lastSubmissionTime,
                          lastDecryptionRequestTime, decryptionContexts,
                          requestCounter, history>>

(***************************************************************************)
(* SubmissionStore                                                         *)
(***************************************************************************)
\* _initIfNeeded accepting every handle.
_initIfNeeded_Off(value) == TRUE

_initIfNeeded(value) == isInitialized(value)

\* submitPassportData without the check that the current batch is open.
submitPassportDataRevert_NoOpenCheck(sender, user, encryptedNationality, encryptedVisaExpiryTimestamp) ==
    IF ~onlyProvider(sender) THEN "NotProvider"
    ELSE IF ~whenNotPaused THEN "Paused"
    ELSE IF ~respectCooldown(user, lastSubmissionTime) THEN "CooldownActive"
    ELSE IF hasSubmittedForBatch[currentBatchId][user] THEN "AlreadySubmitted"
    ELSE IF ~_initIfNeeded(encryptedNationality) THEN "NotInitialized"
    ELSE IF ~_initIfNeeded(encryptedVisaExpiryTimestamp) THEN "NotInitialized"
    ELSE "ok"

\* submitPassportData testing the cooldown before the provider and pause gates.
submitPassportDataRevert_CooldownFirst(sender, user, encryptedNationality, encryptedVisaExpiryTimestamp) ==
    IF ~respectCooldown(user, lastSubmissionTime) THEN "CooldownActive"
    ELSE IF ~onlyProvider(sender) THEN "NotProvider"
    ELSE IF ~whenNotPaused THEN "Paused"
    ELSE IF ~batches[currentBatchId].isOpen THEN "BatchClosed"
    ELSE IF hasSubmittedForBatch[currentBatchId][user] THEN "AlreadySubmitted"
    ELSE IF ~_initIfNeeded(encryptedNationality) THEN "NotInitialized"
    ELSE IF ~_initIfNeeded(encryptedVisaExpiryTimestamp) THEN "NotInitialized"
    ELSE "ok"

\* submitPassportData without the hasSubmittedForBatch check.
submitPassportDataRevert_NoFlagCheck(sender, user, encryptedNationality, encryptedVisaExpiryTimestamp) ==
    IF ~onlyProvider(sender) THEN "NotProvider"
    ELSE IF ~whenNotPaused THEN "Paused"
    ELSE IF ~respectCooldown(user, lastSubmissionTime) THEN "CooldownActive"
    ELSE IF ~batches[currentBatchId].isOpen THEN "BatchClosed"
    ELSE IF ~_initIfNeeded(encryptedNationality) THEN "NotInitialized"
    ELSE IF ~_initIfNeeded(encryptedVisaExpiryTimestamp) THEN "NotInitialized"
    ELSE "ok"

\* submitPassportData validating the handles before the hasSubmittedForBatch check.
submitPassportDataRevert_InitFirst(sender, user, encryptedNationality, encryptedVisaExpiryTimestamp) ==
    IF ~onlyProvider(sender) THEN "NotProvider"
    ELSE IF ~whenNotPaused THEN "Paused"
    ELSE IF ~respectCooldown(user, lastSubmissionTime) THEN "CooldownActive"
    ELSE IF ~batches[currentBatchId].isOpen THEN "BatchClosed"
    ELSE IF ~_initIfNeeded(encryptedNationality) THEN "NotInitialized"
    ELSE IF ~_initIfNeeded(encryptedVisaExpiryTimestamp) THEN "NotInitialized"
    ELSE IF hasSubmittedForBatch[currentBatchId][user] THEN "AlreadySubmitted"
    ELSE "ok"

submitPassportDataRevert(sender, user, encryptedNationality, encryptedVisaExpiryTimestamp) ==
    IF ~onlyProvider(sender) THEN "NotProvider"
    ELSE IF ~whenNotPaused THEN "Paused"
    ELSE IF ~respectCooldown(user, lastSubmissionTime) THEN "CooldownActive"
    ELSE IF ~batches[currentBatchId].isOpen THEN "BatchClosed"
    ELSE IF hasSubmittedForBatch[currentBatchId][user] THEN "AlreadySubmitted"
    ELSE IF ~_initIfNeeded(encryptedNationality) THEN "NotInitialized"
    ELSE IF ~_initIfNeeded(encryptedVisaExpiryTimestamp) THEN "NotInitialized"
    ELSE "ok"

submitPassportData(sender, user, encryptedNationality, encryptedVisaExpiryTimestamp) ==
    LET o == Outcome("submitPassportData", submitPassportDataRevert(sender, user, encryptedNationality,
                                              encryptedVisaExpiryTimestamp),
                     "PassportSubmitted")
    IN  IF o.err # "ok" THEN Reverted(o)
        ELSE
           /\ Returned(o)
           /\ userPassportData' =
                 [userPassportData EXCEPT ![currentBatchId][user] =
                     [encryptedNationality |-> encryptedNationality,
                      encryptedVisaExpiryTimestamp |-> encryptedVisaExpiryTimestamp]]
           /\ hasSubmittedForBatch' =
                 [hasSubmittedForBatch EXCEPT ![currentBatchId][user] = TRUE]
           /\ lastSubmissionTime' = [lastSubmissionTime EXCEPT ![user] = now]
           /\ submitted' = [submitted EXCEPT ![currentBatchId][user] = Bump(@)]
           /\ gated' = Gate("submission", user)
           /\ UNCHANGED <<owner, isProvider, paused, cooldownSeconds, currentBatchId,
                          batches, lastDecryptionRequestTime, decryptionContexts,
                          requestCounter, completed, delivered>>

(***************************************************************************)
(* DecryptionOracleClient                                                  *)
(***************************************************************************)
\* The stored handle a request of the given attribute reads.
storedHandle(attribute, forBatchId, user) ==
    IF attribute = "Nationality"
    THEN userPassportData[forBatchId][user].encryptedNationality
    ELSE userPassportData[forBatchId][user].encryptedVisaExpiryTimestamp

\* The encrypted boolean of the request: eq for nationality, ge for the visa expiry.
encryptedResult(attribute, forBatchId, user, encryptedQuery) ==
    IF attribute = "Nationality"
    THEN fheEq(storedHandle(attribute, forBatchId, user), encryptedQuery)
    ELSE fheGe(storedHandle(attribute, forBatchId, user), encryptedQuery)

\* requestVerify* without the check that the batch is closed.
requestVerifyRevert_NoOpenCheck(attribute, sender, user, forBatchId, encryptedQuery) ==
    IF ~onlyProvider(sender) THEN "NotProvider"
    ELSE IF ~whenNotPaused THEN "Paused"
    ELSE IF ~respectCooldown(user, lastDecryptionRequestTime) THEN "CooldownActive"
    ELSE IF forBatchId > currentBatchId \/ forBatchId = 0 THEN "InvalidBatchId"
    ELSE IF ~isInitialized(storedHandle(attribute, forBatchId, user)) THEN "NotInitialized"
    ELSE IF ~_initIfNeeded(encryptedQuery) THEN "NotInitialized"
    ELSE "ok"

\* requestVerify* without the check that the stored handle is initialized.
requestVerifyRevert_NoStoredCheck(attribute, sender, user, forBatchId, encryptedQuery) ==
    IF ~onlyProvider(sender) THEN "NotProvider"
    ELSE IF ~whenNotPaused THEN "Paused"
    ELSE IF ~respectCooldown(user, lastDecryptionRequestTime) THEN "CooldownActive"
    ELSE IF forBatchId > currentBatchId \/ forBatchId = 0 THEN "InvalidBatchId"
    ELSE IF batches[forBatchId].isOpen THEN "BatchNotClosed"
    ELSE IF ~_initIfNeeded(encryptedQuery) THEN "NotInitialized"
    ELSE "ok"

\* requestVerify* rejecting only batch id 0 as invalid.
requestVerifyRevert_ZeroOnly(attribute, sender, user, forBatchId, encryptedQuery) ==
    IF ~onlyProvider(sender) THEN "NotProvider"
    ELSE IF ~whenNotPaused THEN "Paused"
    ELSE IF ~respectCooldown(user, lastDecryptionRequestTime) THEN "CooldownActive"
    ELSE IF forBatchId = 0 THEN "InvalidBatchId"
    ELSE IF batches[forBatchId].isOpen THEN "BatchNotClosed"
    ELSE IF ~isInitialized(storedHandle(attribute, forBatchId, user)) THEN "NotInitialized"
    ELSE IF ~_initIfNeeded(encryptedQuery) THEN "NotInitialized"
    ELSE "ok"

requestVerifyRevert(attribute, sender, user, forBatchId, encryptedQuery) ==
    IF ~onlyProvider(sender) THEN "NotProvider"
    ELSE IF ~whenNotPaused THEN "Paused"
    ELSE IF ~respectCooldown(user, lastDecryptionRequestTime) THEN "CooldownActive"
    ELSE IF forBatchId > currentBatchId \/ forBatchId = 0 THEN "InvalidBatchId"
    ELSE IF batches[forBatchId].isOpen THEN "BatchNotClosed"
    ELSE IF ~isInitialized(storedHandle(attribute, forBatchId, user)) THEN "NotInitialized"
    ELSE IF ~_initIfNeeded(encryptedQuery) THEN "NotInitialized"
    ELSE "ok"

\* requestVerify* stamping the submission clock instead of the request clock.
requestVerify_SubmissionClock(attribute, sender, user, forBatchId, encryptedQuery) ==
    LET op == IF attribute = "Nationality" THEN "requestVerifyNationality"
              ELSE "requestVerifyVisaStatus"
        o == Outcome(op,
                     requestVerifyRevert(attribute, sender, user, forBatchId, encryptedQuery),
                     "DecryptionRequested")
        cts == <<toBytes32(encryptedResult(attribute, forBatchId, user, encryptedQuery))>>
        stateHash == _hashCiphertexts(cts)
        requestId == requestCounter
    IN  IF o.err # "ok" THEN Reverted(o)
        ELSE
           /\ requestCounter < MaxReq
           /\ Returned(o)
           /\ requestCounter' = requestCounter + 1
           /\ decryptionContexts' =
                 [decryptionContexts EXCEPT ![requestId] =
                     [batchId |-> forBatchId, stateHash |-> stateHash, processed |-> FALSE]]
           /\ lastSubmissionTime' = [lastSubmissionTime EXCEPT ![user] = now]
           /\ UNCHANGED <<owner, isProvider, paused, cooldownSeconds, currentBatchId,
                          batches, userPassportData, hasSubmittedForBatch,
                          lastDecryptionRequestTime, submitted, completed, delivered>>
           /\ gated' = Gate("decryptionRequest", user)

requestVerify(attribute, sender, user, forBatchId, encryptedQuery) ==
    LET op == IF attribute = "Nationality" THEN "requestVerifyNationality"
              ELSE "requestVerifyVisaStatus"
        o == Outcome(op,
                     requestVerifyRevert(attribute, sender, user, forBatchId, encryptedQuery),
                     "DecryptionRequested")
        cts == <<toBytes32(encryptedResult(attribute, forBatchId, user, encryptedQuery))>>
        stateHash == _hashCiphertexts(cts)
        requestId == requestCounter
    IN  IF o.err # "ok" THEN Reverted(o)
        ELSE
           /\ requestCounter < MaxReq
           /\ Returned(o)
           /\ requestCounter' = requestCounter + 1
           /\ decryptionContexts' =
                 [decryptionContexts EXCEPT ![requestId] =
                     [batchId |-> forBatchId, stateHash |-> stateHash, processed |-> FALSE]]
           /\ lastDecryptionRequestTime' =
                 [lastDecryptionRequestTime EXCEPT ![user] = now]
           /\ UNCHANGED <<owner, isProvider, paused, cooldownSeconds, currentBatchId,
                          batches, userPassportData, hasSubmittedForBatch,
                          lastSubmissionTime, submitted, completed, delivered>>
           /\ gated' = Gate("decryptionRequest", user)

requestVerifyNationality(sender, user, forBatchId, encryptedQueryNationality) ==
    requestVerify("Nationality", sender, user, forBatchId, encryptedQueryNationality)

requestVerifyVisaStatus(sender, user, forBatchId, encryptedCurrentTimestamp) ==
    requestVerify("VisaStatus", sender, user, forBatchId, encryptedCurrentTimestamp)

(***************************************************************************)
(* CallbackHandler.  checkSignatures is the oracle's proof check: its      *)
(* verdict on (requestId, cleartexts, proof) is an input of the call.      *)
(***************************************************************************)
\* myCallback that only verifies the proof.
myCallbackRevert_ProofOnly(requestId, checkSignatures) ==
    IF ~checkSignatures THEN "InvalidProof" ELSE "ok"

\* myCallback verifying the proof before the replay and hash checks.
myCallbackRevert_ProofFirst(requestId, checkSignatures) ==
    IF ~checkSignatures THEN "InvalidProof"
    ELSE IF decryptionContexts[requestId].processed THEN "ReplayDetected"
    ELSE IF _rebuildStateHashForCallback(requestId) # decryptionContexts[requestId].stateHash
         THEN "StateMismatch"
    ELSE "ok"

\* myCallback behind the whenNotPaused gate of the provider-facing functions.
myCallbackRevert_WhenNotPaused(requestId, checkSignatures) ==
    IF paused THEN "Paused"
    ELSE IF decryptionContexts[requestId].processed THEN "ReplayDetected"
    ELSE IF _rebuildStateHashForCallback(requestId) # decryptionContexts[requestId].stateHash
         THEN "StateMismatch"
    ELSE IF ~checkSignatures THEN "InvalidProof"
    ELSE "ok"

myCallbackRevert(requestId, checkSignatures) ==
    IF decryptionContexts[requestId].processed THEN "ReplayDetected"
    ELSE IF _rebuildStateHashForCallback(requestId) # decryptionContexts[requestId].stateHash
         THEN "StateMismatch"
    ELSE IF ~checkSignatures THEN "InvalidProof"
    ELSE "ok"

\* myCallback deleting the context of a request whose callback it rejects.
myCallback_DeleteOnReject(sender, requestId, checkSignatures) ==
    LET o == Outcome("myCallback",
                     myCallbackRevert(requestId, checkSignatures), "DecryptionCompleted")
    IN  /\ result' = o
        /\ decryptionContexts' =
              [decryptionContexts EXCEPT ![requestId] =
                  IF o.err = "ok" THEN [@ EXCEPT !.processed = TRUE] ELSE ZeroContext]
        /\ delivered' = [delivered EXCEPT ![requestId] =
                            IF requestId < requestCounter THEN Bump(@) ELSE @]
        /\ completed' = [completed EXCEPT ![requestId] =
                            IF o.err = "ok" THEN Bump(@) ELSE @]
        /\ UNCHANGED <<owner, isProvider, paused, cooldownSeconds, currentBatchId,
                       batches, userPassportData, hasSubmittedForBatch,
                       lastSubmissionTime, lastDecryptionRequestTime,
                       requestCounter, now, submitted, gated>>

\* myCallback that, on rejecting a callback, marks every context processed.
myCallback_PoisonAllOnReject(sender, requestId, checkSignatures) ==
    LET o == Outcome("myCallback",
                     myCallbackRevert(requestId, checkSignatures), "DecryptionCompleted")
    IN  /\ result' = o
        /\ decryptionContexts' =
              IF o.err = "ok"
              THEN [decryptionContexts EXCEPT ![requestId].processed = TRUE]
              ELSE [r \in ReqIds |-> [decryptionContexts[r] EXCEPT !.processed = TRUE]]
        /\ delivered' = [delivered EXCEPT ![requestId] =
                            IF requestId < requestCounter THEN Bump(@) ELSE @]
        /\ completed' = [completed EXCEPT ![requestId] =
                            IF o.err = "ok" THEN Bump(@) ELSE @]
        /\ UNCHANGED <<owner, isProvider, paused, cooldownSeconds, currentBatchId,
                       batches, userPassportData, hasSubmittedForBatch,
                       lastSubmissionTime, lastDecryptionRequestTime,
                       requestCounter, now, submitted, gated>>

\* myCallback marking the context processed before its checks and reporting
\* a failed check without rolling that back.
myCallback_MarkBeforeChecks(sender, requestId, checkSignatures) ==
    LET o == Outcome("myCallback",
                     myCallbackRevert(requestId, checkSignatures), "DecryptionCompleted")
    IN  /\ result' = o
        /\ decryptionContexts' = [decryptionContexts EXCEPT ![requestId].processed = TRUE]
        /\ delivered' = [delivered EXCEPT ![requestId] =
                            IF requestId < requestCounter THEN Bump(@) ELSE @]
        /\ completed' = [completed EXCEPT ![requestId] =
                            IF o.err = "ok" THEN Bump(@) ELSE @]
        /\ UNCHANGED <<owner, isProvider, paused, cooldownSeconds, currentBatchId,
                       batches, userPassportData, hasSubmittedForBatch,
                       lastSubmissionTime, lastDecryptionRequestTime,
                       requestCounter, now, submitted, gated>>

myCallback(sender, requestId, checkSignatures) ==
    LET o == Outcome("myCallback",
                     myCallbackRevert(requestId, checkSignatures), "DecryptionCompleted")
    IN  /\ delivered' = [delivered EXCEPT ![requestId] =
                            IF requestId < requestCounter THEN Bump(@) ELSE @]
        /\ result' = o
        /\ UNCHANGED <<owner, isProvider, paused, cooldownSeconds, currentBatchId,
                       batches, userPassportData, hasSubmittedForBatch,
                       lastSubmissionTime, lastDecryptionRequestTime,
                       requestCounter, now, submitted, gated>>
        /\ IF o.err # "ok"
           THEN UNCHANGED <<decryptionContexts, completed>>
           ELSE /\ decryptionContexts' =
                      [decryptionContexts EXCEPT ![requestId].processed = TRUE]
                /\ completed' = [completed EXCEPT ![requestId] = Bump(@)]

(***************************************************************************)
(* Time: block.timestamp never decreases between transactions.             *)
(***************************************************************************)
Tick ==
    /\ now + TickUnit <= Genesis + MaxTick * TickUnit
    /\ now' = now + TickUnit
    /\ UNCHANGED <<storage, requestCounter, result, history>>

(***************************************************************************)
(* Calls by any address with any argument, grouped by component.  The      *)
(* provider-facing groups take the set of users the calls are about.       *)
(***************************************************************************)
OwnershipCall == \E s \in Addr, a \in Addr : transferOwnership(s, a)

AddProviderCall == \E s \in Addr, a \in Addr : addProvider(s, a)

RemoveProviderCall == \E s \in Addr, a \in Addr : removeProvider(s, a)

PauseCall ==
    \/ \E s \in Addr : pause(s)
    \/ \E s \in Addr : unpause(s)

CooldownCall == \E s \in Addr, c \in NewCooldowns : setCooldown(s, c)

BatchCall ==
    \/ \E s \in Addr : openNewBatch(s)
    \/ \E s \in Addr : closeCurrentBatch(s)

SubmitCall(users) ==
    \E s \in Addr, u \in users, n \in Handles, v \in Handles :
        submitPassportData(s, u, n, v)

RequestCall(users) ==
    \/ \E s \in Addr, u \in users, b \in ForBatchIds, q \in Handles :
          requestVerifyNationality(s, u, b, q)
    \/ \E s \in Addr, u \in users, b \in ForBatchIds, q \in Handles :
          requestVerifyVisaStatus(s, u, b, q)

CallbackCall == \E s \in Addr, r \in ReqIds, ok \in BOOLEAN : myCallback(s, r, ok)

\* The whole contract.
Next ==
    \/ OwnershipCall
    \/ AddProviderCall
    \/ RemoveProviderCall
    \/ PauseCall
    \/ CooldownCall
    \/ BatchCall
    \/ SubmitCall(Addr)
    \/ RequestCall(Addr)
    \/ CallbackCall
    \/ Tick

Spec == Init /\ [][Next]_vars

\* The batch lifecycle under the owner's calls.
NextBatch == OwnershipCall \/ BatchCall \/ Tick

SpecBatch == Init /\ [][NextBatch]_vars

\* Rate limiting: both gated action kinds of one user, with the cooldown retuned.
CooldownUser == "a2"

NextCooldown ==
    \/ AddProviderCall
    \/ CooldownCall
    \/ BatchCall
    \/ SubmitCall({CooldownUser})
    \/ RequestCall({CooldownUser})
    \/ Tick

SpecCooldown == Init /\ [][NextCooldown]_vars

\* The request / callback protocol for one user within one block.
OracleUser == "a2"

NextOracle ==
    \/ AddProviderCall
    \/ BatchCall
    \/ SubmitCall({OracleUser})
    \/ RequestCall({OracleUser})
    \/ CallbackCall

SpecOracle == Init /\ [][NextOracle]_vars

\* Submissions and requests for every user, back to back within one block.
NextUsers ==
    \/ AddProviderCall
    \/ BatchCall
    \/ SubmitCall(Addr)
    \/ RequestCall(Addr)

SpecUsers == Init /\ [][NextUsers]_vars

\* The owner's administration: ownership, providers, cooldown, pause, batches.
NextAccess ==
    \/ OwnershipCall
    \/ AddProviderCall
    \/ RemoveProviderCall
    \/ CooldownCall
    \/ PauseCall
    \/ BatchCall

SpecAccess == Init /\ [][NextAccess]_vars

\* The batch lifecycle under the owner's calls, paused or not, over time.
NextLifecycle == OwnershipCall \/ PauseCall \/ BatchCall \/ Tick

SpecLifecycle == Init /\ [][NextLifecycle]_vars

\* Requests of every user and the callbacks that answer them, within one block.
NextCallbacks ==
    \/ AddProviderCall
    \/ BatchCall
    \/ SubmitCall(Addr)
    \/ RequestCall(Addr)
    \/ CallbackCall

SpecCallbacks == Init /\ [][NextCallbacks]_vars

\* The pause switch over the provider-facing functions, for one user.
PauseUser == "a2"

NextPause ==
    \/ AddProviderCall
    \/ PauseCall
    \/ BatchCall
    \/ SubmitCall({PauseUser})
    \/ RequestCall({PauseUser})

SpecPause == Init /\ [][NextPause]_vars

\* Every external function, the provider-facing ones for one user, within one block.
AnyUser == "a2"

NextAny ==
    \/ OwnershipCall
    \/ AddProviderCall
    \/ RemoveProviderCall
    \/ PauseCall
    \/ CooldownCall
    \/ BatchCall
    \/ SubmitCall({AnyUser})
    \/ RequestCall({AnyUser})
    \/ CallbackCall

SpecAny == Init /\ [][NextAny]_vars

\* The calls that lead to the first decryption request of one user.
OutstandingUser == "a2"

BeforeRequest ==
    /\ requestCounter = 0
    /\ \/ AddProviderCall
       \/ BatchCall
       \/ SubmitCall({OutstandingUser})
       \/ RequestCall({OutstandingUser})

\* What may happen between that request and its callback: the owner's
\* administration, calls by anybody else, and the passing of time.
SinceRequest ==
    /\ requestCounter > 0
    /\ \/ OwnershipCall
       \/ RemoveProviderCall
       \/ PauseCall
       \/ CooldownCall
       \/ BatchCall
       \/ Tick

\* One outstanding request with all of that in between, and its callbacks.
NextOutstanding == BeforeRequest \/ SinceRequest \/ CallbackCall

SpecOutstanding == Init /\ [][NextOutstanding]_vars

(***************************************************************************)
(* Properties.                                                             *)
(***************************************************************************)
OpenBatches == {b \in StoredBatchIds : batches[b].isOpen}

\* No context was ever created for the request id: the oracle has not issued it.
Unknown(requestId) == requestId >= requestCounter

\* The context of the request id exists and no callback has completed it.
Pending(requestId) ==
    requestId < requestCounter /\ ~decryptionContexts[requestId].processed

\* C1: in every state reachable by the owner's openNewBatch and
\* closeCurrentBatch calls exactly one batch id has isOpen = true.
C1_ExactlyOneOpen == Cardinality(OpenBatches) = 1

\* C2: in every reachable state at most one batch id has isOpen = true; in
\* particular openNewBatch never leaves two batches open.
C2_AtMostOneOpen == Cardinality(OpenBatches) <= 1

C4_PendingCallbackCompletes ==
    [][\A s \in Addr, r \in ReqIds :
          (Pending(r) /\ result'.op = "myCallback" /\ myCallback(s, r, TRUE))
              => /\ result'.err = "ok"
                 /\ result'.event = "DecryptionCompleted"
                 /\ decryptionContexts'[r].processed]_vars

\* C6 as claimed: a callback for a request id with no context fails with
\* ReplayDetected and changes no state.
C6_UnknownIsReplay ==
    [][\A s \in Addr, r \in ReqIds, ok \in BOOLEAN :
          (Unknown(r) /\ result'.op = "myCallback" /\ myCallback(s, r, ok))
              => /\ result'.err = "ReplayDetected"
                 /\ UNCHANGED <<storage, requestCounter, history>>]_vars

\* C6 amended: a callback for a request id with no context fails with
\* StateMismatch, whatever its proof, and changes no state.
C6_UnknownIsStateMismatch ==
    [][\A s \in Addr, r \in ReqIds, ok \in BOOLEAN :
          (Unknown(r) /\ result'.op = "myCallback" /\ myCallback(s, r, ok))
              => /\ result'.err = "StateMismatch"
                 /\ UNCHANGED <<storage, requestCounter, history>>]_vars

\* C6 witness: a callback was rejected before any context existed.
C6_Witness ==
    /\ requestCounter = 0
    /\ result.op = "myCallback"
    /\ result.err = "StateMismatch"
    /\ \A r \in ReqIds : decryptionContexts[r] = ZeroContext

\* C7: for every (batchId, user) at most one submitPassportData call ever
\* succeeds, and the record stored for the pair never changes afterwards.
C7_SubmitOnce ==
    /\ [](\A b \in StoredBatchIds, u \in Addr : submitted[b][u] <= 1)
    /\ [][\A b \in StoredBatchIds, u \in Addr :
            submitted[b][u] >= 1
                => /\ userPassportData'[b][u] = userPassportData[b][u]
                   /\ hasSubmittedForBatch'[b][u]]_vars

\* C7 witness: a pair holds its one record and a further submit for it failed.
C7_Witness ==
    \E b \in StoredBatchIds, u \in Addr :
        /\ submitted[b][u] = 1
        /\ isInitialized(userPassportData[b][u].encryptedNationality)
        /\ b = currentBatchId
        /\ result.op = "submitPassportData"
        /\ result.err = "AlreadySubmitted"

\* A second submit by an authorized provider, unpaused, for a user who already
\* has a submission in the still-open current batch.
SecondSubmit(sender, user) ==
    /\ isProvider[sender]
    /\ ~paused
    /\ batches[currentBatchId].isOpen
    /\ hasSubmittedForBatch[currentBatchId][user]

\* C8 as claimed: such a second submit always fails with the duplicate
\* submission error, whatever the payload and the time since the first.
C8_DuplicateAlways ==
    [][\A s \in Addr, u \in Addr, n \in Handles, v \in Handles :
          (/\ SecondSubmit(s, u)
           /\ result'.op = "submitPassportData"
           /\ submitPassportData(s, u, n, v))
              => result'.err = "AlreadySubmitted"]_vars

\* C8 amended: such a second submit always fails, whatever the payload: with
\* CooldownActive inside the user's cooldown window, and with the duplicate
\* submission error from the end of the window on.
C8_DuplicateOrCooldown ==
    [][\A s \in Addr, u \in Addr, n \in Handles, v \in Handles :
          (/\ SecondSubmit(s, u)
           /\ result'.op = "submitPassportData"
           /\ submitPassportData(s, u, n, v))
              => /\ result'.err =
                        IF now < lastSubmissionTime[u] + cooldownSeconds
                        THEN "CooldownActive" ELSE "AlreadySubmitted"
                 /\ UNCHANGED <<storage, requestCounter, history>>]_vars

\* C8 witness: a second submit after the window failed as a duplicate.
C8_Witness ==
    /\ result.op = "submitPassportData"
    /\ result.err = "AlreadySubmitted"
    /\ \E u \in Addr :
          /\ hasSubmittedForBatch[currentBatchId][u]
          /\ now >= lastSubmissionTime[u] + cooldownSeconds

\* C9: for a fixed user and action kind, a successful action comes at least
\* the cooldownSeconds in force at its acceptance after the previous one.
C9_CooldownSeparation ==
    [][/\ \A s \in Addr, u \in Addr, n \in Handles, v \in Handles :
            (/\ gated["submission"][u].count > 0
             /\ result'.err = "ok"
             /\ result'.op = "submitPassportData"
             /\ submitPassportData(s, u, n, v))
                => now - gated["submission"][u].last >= cooldownSeconds
       /\ \A a \in Attributes, s \in Addr, u \in Addr, b \in ForBatchIds, q \in Handles :
            (/\ gated["decryptionRequest"][u].count > 0
             /\ result'.err = "ok"
             /\ result'.event = "DecryptionRequested"
             /\ requestVerify(a, s, u, b, q))
                => now - gated["decryptionRequest"][u].last >= cooldownSeconds]_vars

\* C9 witness: a user has two successful actions of each kind, the cooldown
\* having been retuned.
C9_Witness ==
    \E u \in Addr :
        /\ gated["submission"][u].count = 2
        /\ gated["decryptionRequest"][u].count = 2
        /\ cooldownSeconds # DefaultCooldown

\* C10: a submit or request by an authorized provider, unpaused, inside the
\* user's cooldown window of that kind fails with CooldownActive and leaves
\* the state unchanged.
C10_InsideWindowRejected ==
    [][/\ \A s \in Addr, u \in Addr, n \in Handles, v \in Handles :
            (/\ isProvider[s] /\ ~paused
             /\ now < lastSubmissionTime[u] + cooldownSeconds
             /\ result'.op = "submitPassportData"
             /\ submitPassportData(s, u, n, v))
                => /\ result'.err = "CooldownActive"
                   /\ UNCHANGED <<storage, requestCounter, history>>
       /\ \A a \in Attributes, s \in Addr, u \in Addr, b \in ForBatchIds, q \in Handles :
            (/\ isProvider[s] /\ ~paused
             /\ now < lastDecryptionRequestTime[u] + cooldownSeconds
             /\ result'.op \in {"requestVerifyNationality", "requestVerifyVisaStatus"}
             /\ requestVerify(a, s, u, b, q))
                => /\ result'.err = "CooldownActive"
                   /\ UNCHANGED <<storage, requestCounter, history>>]_vars

\* C10 witness: a request inside the window was rejected while the user's
\* submission clock is inside its window too.
C10_Witness ==
    /\ result.op \in {"requestVerifyNationality", "requestVerifyVisaStatus"}
    /\ result.err = "CooldownActive"
    /\ \E u \in Addr :
          /\ gated["decryptionRequest"][u].count > 0
          /\ now < lastDecryptionRequestTime[u] + cooldownSeconds
          /\ now < lastSubmissionTime[u] + cooldownSeconds

\* C11: a successful submit or request for user u leaves the verdict on every
\* submit and request for any other user as it was, so an action for another
\* user issued right after is accepted whenever it was acceptable before.
C11_NoCrossUserInterference ==
    [][(result'.err = "ok" /\ result'.event \in {"PassportSubmitted", "DecryptionRequested"})
          => \A u \in Addr :
                (\/ \E s \in Addr, n \in Handles, v \in Handles :
                       submitPassportData(s, u, n, v)
                 \/ \E a \in Attributes, s \in Addr, b \in ForBatchIds, q \in Handles :
                       requestVerify(a, s, u, b, q))
                   => \A t \in Addr, w \in Addr \ {u}, h \in Handles :
                         /\ submitPassportDataRevert(t, w, h, h)'
                               = submitPassportDataRevert(t, w, h, h)
                         /\ \A a \in Attributes, b \in ForBatchIds :
                               requestVerifyRevert(a, t, w, b, h)'
                                  = requestVerifyRevert(a, t, w, b, h)]_vars

\* C11 witness: two different users submitted into the current batch at the
\* same block timestamp, the second right after the first.
C11_Witness ==
    /\ result.op = "submitPassportData"
    /\ result.err = "ok"
    /\ \A u \in Addr :
          /\ hasSubmittedForBatch[currentBatchId][u]
          /\ lastSubmissionTime[u] = now

\* A requestVerify* call that gets past its modifiers: the sender is an
\* authorized provider, the contract is not paused and the user is outside
\* the cooldown window of decryption requests.
PastRequestModifiers(sender, user) ==
    /\ isProvider[sender]
    /\ ~paused
    /\ ~(now < lastDecryptionRequestTime[user] + cooldownSeconds)

RequestOps == {"requestVerifyNationality", "requestVerifyVisaStatus"}

\* C12: a requestVerify* call past its modifiers whose forBatchId names an
\* open batch fails with BatchNotClosed and creates no DecryptionContext.
C12_OpenBatchRejected ==
    [][result'.op \in RequestOps
          => \A a \in Attributes, s \in Addr, u \in Addr, b \in StoredBatchIds, q \in Handles :
                (/\ PastRequestModifiers(s, u)
                 /\ batches[b].isOpen
                 /\ requestVerify(a, s, u, b, q))
                    => /\ result'.err = "BatchNotClosed"
                       /\ UNCHANGED <<storage, requestCounter>>]_vars

\* C12 witness: a request for a user with a record in the still-open current
\* batch was rejected with BatchNotClosed before any context existed.
C12_Witness ==
    /\ result.op \in RequestOps
    /\ result.err = "BatchNotClosed"
    /\ batches[currentBatchId].isOpen
    /\ \E u \in Addr : hasSubmittedForBatch[currentBatchId][u]
    /\ requestCounter = 0

\* C13: a requestVerify* call past its modifiers against a closed batch id in
\* 1..currentBatchId for which the user has no submission fails with
\* NotInitialized and creates no DecryptionContext.
C13_NoSubmissionRejected ==
    [][result'.op \in RequestOps
          => \A a \in Attributes, s \in Addr, u \in Addr, b \in StoredBatchIds, q \in Handles :
                (/\ PastRequestModifiers(s, u)
                 /\ b <= currentBatchId
                 /\ ~batches[b].isOpen
                 /\ ~hasSubmittedForBatch[b][u]
                 /\ requestVerify(a, s, u, b, q))
                    => /\ result'.err = "NotInitialized"
                       /\ UNCHANGED <<storage, requestCounter>>]_vars

\* C13 witness: a request was rejected with NotInitialized while a batch had
\* been closed and no closed batch held a submission.
C13_Witness ==
    /\ result.op \in RequestOps
    /\ result.err = "NotInitialized"
    /\ \E b \in 1..currentBatchId : ~batches[b].isOpen /\ batches[b].closedAt > 0
    /\ \A b \in 1..currentBatchId, u \in Addr :
          ~batches[b].isOpen => ~hasSubmittedForBatch[b][u]

\* C14: every existing DecryptionContext names a batch id in
\* 1..currentBatchId, the batch was closed when the context was created, and
\* a request past its modifiers with forBatchId = 0 or forBatchId >
\* currentBatchId fails with InvalidBatchId; no request with such a
\* forBatchId is accepted.
C14_ContextsForClosedBatches ==
    /\ [](\A r \in ReqIds :
             r < requestCounter
                => decryptionContexts[r].batchId \in 1..currentBatchId)
    /\ [][result'.op \in RequestOps
            => \A a \in Attributes, s \in Addr, u \in Addr, b \in ForBatchIds, q \in Handles :
                  requestVerify(a, s, u, b, q)
                     => /\ result'.err = "ok"
                           => /\ decryptionContexts'[requestCounter].batchId = b
                              /\ b \in 1..currentBatchId
                              /\ ~batches[b].isOpen
                        /\ (b = 0 \/ b > currentBatchId)
                           => /\ result'.err # "ok"
                              /\ UNCHANGED <<storage, requestCounter>>
                              /\ PastRequestModifiers(s, u)
                                    => result'.err = "InvalidBatchId"]_vars

\* C14 witness: a request has just created a context for a closed batch
\* below the current batch id.
C14_Witness ==
    /\ requestCounter >= 1
    /\ result.op \in RequestOps
    /\ result.err = "ok"
    /\ LET b == decryptionContexts[requestCounter - 1].batchId
       IN  /\ b \in 1..(currentBatchId - 1)
           /\ ~batches[b].isOpen
           /\ batches[b].closedAt > 0

\* C15: while the paused flag is set, submitPassportData and requestVerify*
\* called by an authorized provider fail with Paused and change no state;
\* unpause by the owner clears the flag, and while it is clear none of them
\* fails with Paused.
C15_PausedRejectsProviders ==
    [][/\ result'.op = "submitPassportData"
            => \A s \in Addr, u \in Addr, n \in Handles, v \in Handles :
                  (isProvider[s] /\ submitPassportData(s, u, n, v))
                     => IF paused
                        THEN /\ result'.err = "Paused"
                             /\ UNCHANGED <<storage, requestCounter, history>>
                        ELSE result'.err # "Paused"
       /\ result'.op \in RequestOps
            => \A a \in Attributes, s \in Addr, u \in Addr, b \in ForBatchIds, q \in Handles :
                  (isProvider[s] /\ requestVerify(a, s, u, b, q))
                     => IF paused
                        THEN /\ result'.err = "Paused"
                             /\ UNCHANGED <<storage, requestCounter, history>>
                        ELSE result'.err # "Paused"
       /\ (result'.op = "unpause" /\ result'.err = "ok")
            => \A s \in Addr : unpause(s) => ~paused']_vars

\* C15 witness: while paused, a request was rejected with Paused although a
\* closed batch holds a record it could have been about.
C15_Witness ==
    /\ paused
    /\ result.op \in RequestOps
    /\ result.err = "Paused"
    /\ \E b \in 1..currentBatchId, u \in Addr :
          ~batches[b].isOpen /\ hasSubmittedForBatch[b][u]

\* C16: called by the owner, addProvider(p) fails with DuplicateProvider
\* exactly when p is authorized and otherwise sets its flag; removeProvider(p)
\* fails with ProviderNotAdded exactly when p is not authorized and otherwise
\* clears its flag; neither touches another address's flag.
C16_ProviderBookkeeping ==
    [][/\ result'.op = "addProvider"
            => \A p \in Addr :
                  addProvider(owner, p)
                     => /\ result'.err = IF isProvider[p] THEN "DuplicateProvider" ELSE "ok"
                        /\ isProvider' = IF isProvider[p] THEN isProvider
                                         ELSE [isProvider EXCEPT ![p] = TRUE]
       /\ result'.op = "removeProvider"
            => \A p \in Addr :
                  removeProvider(owner, p)
                     => /\ result'.err = IF isProvider[p] THEN "ok" ELSE "ProviderNotAdded"
                        /\ isProvider' = IF isProvider[p]
                                         THEN [isProvider EXCEPT ![p] = FALSE]
                                         ELSE isProvider]_vars

\* C16 witness: adding an authorized provider again was rejected with
\* DuplicateProvider while another address is not authorized.
C16_Witness ==
    /\ result.op = "addProvider"
    /\ result.err = "DuplicateProvider"
    /\ \E p \in Addr : isProvider[p]
    /\ \E p \in Addr : ~isProvider[p]

\* The functions behind onlyOwner.
OwnerOps ==
    {"transferOwnership", "addProvider", "removeProvider", "setCooldown",
     "pause", "unpause", "openNewBatch", "closeCurrentBatch"}

\* A call of an owner-gated function by the sender, with any argument.
OwnerGatedCall(sender) ==
    \/ \E a \in Addr : transferOwnership(sender, a)
    \/ \E p \in Addr : addProvider(sender, p)
    \/ \E p \in Addr : removeProvider(sender, p)
    \/ \E c \in NewCooldowns : setCooldown(sender, c)
    \/ pause(sender)
    \/ unpause(sender)
    \/ openNewBatch(sender)
    \/ closeCurrentBatch(sender)

\* C17: every owner-gated function called by an address other than the
\* current owner fails with NotOwner and changes no state, the owner's own
\* calls never fail with NotOwner, and transferOwnership(newOwner) by the
\* owner makes newOwner the owner, so that the gate then admits newOwner only.
C17_OnlyOwner ==
    [][result'.op \in OwnerOps
          => /\ \A s \in Addr \ {owner} :
                   OwnerGatedCall(s)
                      => /\ result'.err = "NotOwner"
                         /\ UNCHANGED <<storage, requestCounter, history>>
             /\ OwnerGatedCall(owner) => result'.err # "NotOwner"
             /\ \A a \in Addr :
                   transferOwnership(owner, a)
                      => /\ result'.err = "ok"
                         /\ owner' = a
                         /\ \A s \in Addr : onlyOwner(s)' <=> s = a]_vars

\* C17 witness: after the ownership moved away from the deployer, a call of
\* an owner-gated function by a non-owner was rejected with NotOwner.
C17_Witness ==
    /\ owner # Deployer
    /\ result.op = "closeCurrentBatch"
    /\ result.err = "NotOwner"

\* C18: cooldownSeconds is positive in every reachable state; setCooldown(0)
\* by the owner fails with InvalidCooldown and leaves it unchanged, and any
\* non-zero value replaces the one value both respectCooldown gates read.
C18_CooldownPositive ==
    /\ [](cooldownSeconds > 0)
    /\ [][result'.op = "setCooldown"
            => \A c \in NewCooldowns :
                  setCooldown(owner, c)
                     => IF c = 0
                        THEN /\ result'.err = "InvalidCooldown"
                             /\ UNCHANGED <<storage, requestCounter, history>>
                        ELSE /\ result'.err = "ok"
                             /\ cooldownSeconds' = c
                             /\ \A u \in Addr :
                                   /\ respectCooldown(u, lastSubmissionTime)'
                                         <=> ~(now < lastSubmissionTime[u] + c)
                                   /\ respectCooldown(u, lastDecryptionRequestTime)'
                                         <=> ~(now < lastDecryptionRequestTime[u] + c)]_vars

\* C18 witness: setCooldown(0) was rejected after the cooldown had been
\* retuned to a non-default value.
C18_Witness ==
    /\ result.op = "setCooldown"
    /\ result.err = "InvalidCooldown"
    /\ cooldownSeconds > 0
    /\ cooldownSeconds # DefaultCooldown

\* C19: every call that fails, with a named error or with the duplicate
\* submission failure, leaves the whole contract state as it was (owner,
\* providers, pause flag, cooldown, batches, current batch id, records,
\* submission flags, cooldown clocks, decryption contexts), issues no request
\* id and emits no event.
C19_FailureChangesNothing ==
    [][result'.err # "ok"
          => /\ UNCHANGED <<storage, requestCounter, now, submitted, completed, gated>>
             /\ result'.event = "none"]_vars

\* C19 witness: a submit with an uninitialized handle failed for a user who
\* never submitted, and no part of a record was written.
C19_Witness ==
    /\ result.op = "submitPassportData"
    /\ result.err = "NotInitialized"
    /\ result.event = "none"
    /\ batches[currentBatchId].isOpen
    /\ \A u \in Addr :
          /\ lastSubmissionTime[u] = 0
          /\ \A b \in StoredBatchIds :
                /\ ~hasSubmittedForBatch[b][u]
                /\ userPassportData[b][u] = ZeroPassportData

C21_ContextsPersist ==
    [][\A r \in ReqIds :
          r < requestCounter
             => /\ decryptionContexts'[r].batchId = decryptionContexts[r].batchId
                /\ decryptionContexts'[r].stateHash = decryptionContexts[r].stateHash
                /\ decryptionContexts[r].processed => decryptionContexts'[r].processed
                /\ decryptionContexts'[r].processed # decryptionContexts[r].processed
                      => /\ result'.op = "myCallback"
                         /\ result'.err = "ok"
                         /\ \E s \in Addr : myCallback(s, r, TRUE)]_vars

\* C21 witness: a context that a callback was delivered for is still there,
\* unprocessed, after a later call of the owner.
C21_Witness ==
    /\ requestCounter >= 1
    /\ delivered[0] >= 1
    /\ decryptionContexts[0].batchId >= 1
    /\ decryptionContexts[0].stateHash # 0
    /\ ~decryptionContexts[0].processed
    /\ result.op \in {"openNewBatch", "closeCurrentBatch"}
    /\ result.err = "ok"

\* The batch ids that have been opened so far.
Opened == {b \in StoredBatchIds : batches[b].createdAt # 0}

\* C22: currentBatchId never decreases, no opened id lies above it, and each
\* successful openNewBatch opens an id that is above every id opened before
\* and was never opened.
C22_BatchIdsIncrease ==
    /\ [](\A b \in Opened : b <= currentBatchId)
    /\ [][/\ currentBatchId' >= currentBatchId
          /\ (result'.op = "openNewBatch" /\ result'.err = "ok")
                => \A s \in Addr :
                      openNewBatch(s)
                         => /\ \A b \in Opened : b < currentBatchId'
                            /\ batches[currentBatchId'] = ZeroBatch
                            /\ Opened' = Opened \cup {currentBatchId'}]_vars

\* C22 witness: openNewBatch opened id 3 although id 2 was never opened.
C22_Witness ==
    /\ result.op = "openNewBatch"
    /\ result.err = "ok"
    /\ currentBatchId = InitialBatchId + 2
    /\ Opened = {InitialBatchId, currentBatchId}

\* C23: closeCurrentBatch by the owner, when batch currentBatchId is open,
\* clears its isOpen, records closedAt = now and advances currentBatchId by
\* one to an id that is not open, touching no other batch; when batch
\* currentBatchId is not open it fails with BatchClosed and leaves
\* currentBatchId and all batches unchanged.
C23_CloseCurrentBatch ==
    [][result'.op = "closeCurrentBatch"
          => (closeCurrentBatch(owner)
                => IF batches[currentBatchId].isOpen
                   THEN /\ result'.err = "ok"
                        /\ batches' = [batches EXCEPT ![currentBatchId].isOpen = FALSE,
                                                      ![currentBatchId].closedAt = now]
                        /\ currentBatchId' = currentBatchId + 1
                        /\ ~batches'[currentBatchId'].isOpen
                   ELSE /\ result'.err = "BatchClosed"
                        /\ UNCHANGED <<currentBatchId, batches>>)]_vars

\* C23 witness: right after a close, a second closeCurrentBatch by the owner
\* failed with BatchClosed on the reserved id.
C23_Witness ==
    /\ result.op = "closeCurrentBatch"
    /\ result.err = "BatchClosed"
    /\ currentBatchId > InitialBatchId
    /\ batches[currentBatchId] = ZeroBatch
    /\ batches[currentBatchId - 1].closedAt > Genesis

\* C24: openNewBatch by the owner never fails, paused or not and whether or
\* not a batch is open; it increments currentBatchId by exactly one and marks
\* the new id open with createdAt = now and closedAt = 0, leaving every other
\* batch entry unchanged.
C24_OpenNewBatch ==
    /\ [](openNewBatchRevert(owner) = "ok")
    /\ [][result'.op = "openNewBatch"
            => (openNewBatch(owner)
                  => /\ result'.err = "ok"
                     /\ currentBatchId' = currentBatchId + 1
                     /\ batches' = [batches EXCEPT ![currentBatchId + 1] =
                                       [isOpen |-> TRUE, createdAt |-> now, closedAt |-> 0]])]_vars

\* C24 witness: openNewBatch succeeded while paused and while another batch
\* was open, after time had passed.
C24_Witness ==
    /\ paused
    /\ result.op = "openNewBatch"
    /\ result.err = "ok"
    /\ Cardinality(OpenBatches) = 2
    /\ batches[currentBatchId].createdAt = now
    /\ now > Genesis

\* C25: closed is terminal per batch id: a batch whose closedAt is recorded
\* is not open, and no step changes its isOpen, createdAt or closedAt.
C25_ClosedIsTerminal ==
    /\ [](\A b \in StoredBatchIds : batches[b].closedAt # 0 => ~batches[b].isOpen)
    /\ [][\A b \in StoredBatchIds :
             batches[b].closedAt # 0 => batches'[b] = batches[b]]_vars

\* C25 witness: a batch closed earlier is still closed, with its timestamps,
\* after a later openNewBatch.
C25_Witness ==
    /\ result.op = "openNewBatch"
    /\ result.err = "ok"
    /\ \E b \in StoredBatchIds :
          /\ batches[b].closedAt # 0
          /\ batches[b].closedAt < now
          /\ batches[b].createdAt = Genesis
          /\ ~batches[b].isOpen

\* C26: a successful requestVerify* creates exactly one DecryptionContext,
\* under the request id the oracle assigned, with batchId = forBatchId, the
\* hash of the encrypted result and processed = false; it sets the user's
\* decryption-request clock to now and changes no other context, no batch,
\* record, submission flag or submission clock.
C26_RequestEffect ==
    [][(result'.err = "ok" /\ result'.event = "DecryptionRequested")
          => \A a \in Attributes, s \in Addr, u \in Addr, b \in ForBatchIds, q \in Handles :
                requestVerify(a, s, u, b, q)
                   => /\ decryptionContexts' =
                            [decryptionContexts EXCEPT ![requestCounter] =
                                [batchId |-> b,
                                 stateHash |-> _hashCiphertexts(
                                     <<toBytes32(encryptedResult(a, b, u, q))>>),
                                 processed |-> FALSE]]
                      /\ decryptionContexts[requestCounter] = ZeroContext
                      /\ requestCounter' = requestCounter + 1
                      /\ lastDecryptionRequestTime' =
                            [lastDecryptionRequestTime EXCEPT ![u] = now]
                      /\ UNCHANGED <<owner, isProvider, paused, cooldownSeconds,
                                     currentBatchId, batches, userPassportData,
                                     hasSubmittedForBatch, lastSubmissionTime>>]_vars

\* C26 witness: the second request, for another user, has created the second
\* context next to the first.
C26_Witness ==
    /\ result.op \in RequestOps
    /\ result.err = "ok"
    /\ requestCounter = 2
    /\ decryptionContexts[0].batchId >= 1
    /\ decryptionContexts[1].batchId >= 1
    /\ \A u \in Addr : lastDecryptionRequestTime[u] = now

\* C27: lastSubmissionTime[u] changes only by a successful submit for user u,
\* which sets it to now, and lastDecryptionRequestTime[u] only by a successful
\* requestVerify* for user u, which sets it to now; a submit leaves the
\* request clocks alone, a request the submission clocks, and every other
\* call (administration, callback) and every failed call leaves both alone.
C27_ClocksOnlyByGatedActions ==
    [][/\ \A u \in Addr :
            /\ lastSubmissionTime'[u] # lastSubmissionTime[u]
                  => /\ result'.op = "submitPassportData"
                     /\ result'.err = "ok"
                     /\ lastSubmissionTime'[u] = now
                     /\ \E s \in Addr, n \in Handles, v \in Handles :
                           submitPassportData(s, u, n, v)
            /\ lastDecryptionRequestTime'[u] # lastDecryptionRequestTime[u]
                  => /\ result'.op \in RequestOps
                     /\ result'.err = "ok"
                     /\ lastDecryptionRequestTime'[u] = now
                     /\ \E a \in Attributes, s \in Addr, b \in ForBatchIds, q \in Handles :
                           requestVerify(a, s, u, b, q)
       /\ (result'.err = "ok" /\ result'.event = "PassportSubmitted")
            => \A s \in Addr, u \in Addr, n \in Handles, v \in Handles :
                  submitPassportData(s, u, n, v)
                     => /\ lastSubmissionTime' = [lastSubmissionTime EXCEPT ![u] = now]
                        /\ UNCHANGED lastDecryptionRequestTime
       /\ (result'.err = "ok" /\ result'.event = "DecryptionRequested")
            => \A a \in Attributes, s \in Addr, u \in Addr, b \in ForBatchIds, q \in Handles :
                  requestVerify(a, s, u, b, q)
                     => /\ lastDecryptionRequestTime' =
                              [lastDecryptionRequestTime EXCEPT ![u] = now]
                        /\ UNCHANGED lastSubmissionTime]_vars

\* C27 witness: both clocks of a user, set by a submit and a request, are
\* still in place after the owner retuned the cooldown.
C27_Witness ==
    /\ result.op = "setCooldown"
    /\ result.err = "ok"
    /\ \E u \in Addr :
          /\ lastSubmissionTime[u] = now
          /\ lastDecryptionRequestTime[u] = now
          /\ gated["submission"][u].count = 1
          /\ gated["decryptionRequest"][u].count = 1

\* A submitPassportData call that gets past its modifiers and the batch and
\* duplicate checks.
PastSubmitChecks(sender, user) ==
    /\ isProvider[sender]
    /\ ~paused
    /\ ~(now < lastSubmissionTime[user] + cooldownSeconds)
    /\ batches[currentBatchId].isOpen
    /\ ~hasSubmittedForBatch[currentBatchId][user]

\* C28: every stored record has both handles initialized, and a submit or a
\* request with an uninitialized handle operand is never accepted: it stores
\* nothing and creates no context, and its error is NotInitialized once the
\* call is past the checks that come before the handle checks.
C28_HandlesInitialized ==
    /\ [](\A b \in StoredBatchIds, u \in Addr :
             hasSubmittedForBatch[b][u]
                => /\ isInitialized(userPassportData[b][u].encryptedNationality)
                   /\ isInitialized(userPassportData[b][u].encryptedVisaExpiryTimestamp))
    /\ [][/\ result'.op = "submitPassportData"
               => \A s \in Addr, u \in Addr, n \in Handles, v \in Handles :
                     ((~isInitialized(n) \/ ~isInitialized(v))
                        /\ submitPassportData(s, u, n, v))
                        => /\ result'.err # "ok"
                           /\ UNCHANGED <<storage, requestCounter>>
                           /\ PastSubmitChecks(s, u) => result'.err = "NotInitialized"
          /\ result'.op \in RequestOps
               => \A a \in Attributes, s \in Addr, u \in Addr, b \in ForBatchIds :
                     requestVerify(a, s, u, b, 0)
                        => /\ result'.err # "ok"
                           /\ UNCHANGED <<storage, requestCounter>>
                           /\ (/\ PastRequestModifiers(s, u)
                               /\ b \in 1..currentBatchId
                               /\ ~batches[b].isOpen)
                                 => result'.err = "NotInitialized"]_vars

\* C28 witness: a request with an uninitialized operand, or against a missing
\* record, was rejected with NotInitialized while a closed batch holds a
\* record with both handles initialized.
C28_Witness ==
    /\ result.op \in RequestOps
    /\ result.err = "NotInitialized"
    /\ requestCounter = 0
    /\ \E b \in 1..currentBatchId, u \in Addr :
          /\ ~batches[b].isOpen
          /\ hasSubmittedForBatch[b][u]
          /\ isInitialized(userPassportData[b][u].encryptedNationality)
          /\ isInitialized(userPassportData[b][u].encryptedVisaExpiryTimestamp)

\* C29: submitPassportData is never accepted while batch currentBatchId is
\* not open, and fails with BatchClosed once past its modifiers; a successful
\* submit writes the record and the submission flag of (currentBatchId, user)
\* and of no other batch id or user, and changes no batch.
C29_SubmitIntoOpenBatchOnly ==
    [][result'.op = "submitPassportData"
          => \A s \in Addr, u \in Addr, n \in Handles, v \in Handles :
                submitPassportData(s, u, n, v)
                   => /\ ~batches[currentBatchId].isOpen
                         => /\ result'.err # "ok"
                            /\ UNCHANGED <<storage, requestCounter>>
                            /\ (/\ isProvider[s]
                                /\ ~paused
                                /\ ~(now < lastSubmissionTime[u] + cooldownSeconds))
                                  => result'.err = "BatchClosed"
                      /\ result'.err = "ok"
                         => /\ batches[currentBatchId].isOpen
                            /\ userPassportData' =
                                  [userPassportData EXCEPT ![currentBatchId][u] =
                                      [encryptedNationality |-> n,
                                       encryptedVisaExpiryTimestamp |-> v]]
                            /\ hasSubmittedForBatch' =
                                  [hasSubmittedForBatch EXCEPT ![currentBatchId][u] = TRUE]
                            /\ UNCHANGED <<currentBatchId, batches>>]_vars

\* C29 witness: between closeCurrentBatch and the next openNewBatch a submit
\* was rejected with BatchClosed, the closed batch keeping its record.
C29_Witness ==
    /\ result.op = "submitPassportData"
    /\ result.err = "BatchClosed"
    /\ currentBatchId > InitialBatchId
    /\ batches[currentBatchId] = ZeroBatch
    /\ ~batches[currentBatchId - 1].isOpen
    /\ \E u \in Addr :
          /\ hasSubmittedForBatch[currentBatchId - 1][u]
          /\ ~hasSubmittedForBatch[currentBatchId][u]

\* The error the modifiers of a provider-facing function give, "past" when
\* the call reaches the body.
ModifierVerdict(sender, user, lastActionTime) ==
    IF ~isProvider[sender] THEN "NotProvider"
    ELSE IF paused THEN "Paused"
    ELSE IF now < lastActionTime[user] + cooldownSeconds THEN "CooldownActive"
    ELSE "past"

ModifierErrors == {"NotProvider", "Paused", "CooldownActive"}

BodyErrors ==
    {"BatchClosed", "AlreadySubmitted", "NotInitialized", "InvalidBatchId", "BatchNotClosed"}

\* C30: the guards of submitPassportData and requestVerify* run in a fixed
\* order: a caller that is not an authorized provider gets NotProvider even
\* when paused or inside the cooldown, an authorized caller gets Paused while
\* paused even inside the cooldown, then comes CooldownActive, and only a
\* call past all three meets the batch, duplicate and initialization checks.
C30_GuardOrder ==
    [][/\ result'.op = "submitPassportData"
            => \A s \in Addr, u \in Addr, n \in Handles, v \in Handles :
                  submitPassportData(s, u, n, v)
                     => IF ModifierVerdict(s, u, lastSubmissionTime) \in ModifierErrors
                        THEN result'.err = ModifierVerdict(s, u, lastSubmissionTime)
                        ELSE result'.err \in BodyErrors \cup {"ok"}
       /\ result'.op \in RequestOps
            => \A a \in Attributes, s \in Addr, u \in Addr, b \in ForBatchIds, q \in Handles :
                  requestVerify(a, s, u, b, q)
                     => IF ModifierVerdict(s, u, lastDecryptionRequestTime) \in ModifierErrors
                        THEN result'.err = ModifierVerdict(s, u, lastDecryptionRequestTime)
                        ELSE result'.err \in BodyErrors \cup {"ok"}]_vars

\* C30 witness: with every provider removed, a submit was rejected with
\* NotProvider although the contract is paused and the user is inside the
\* cooldown window of an earlier submission.
C30_Witness ==
    /\ result.op = "submitPassportData"
    /\ result.err = "NotProvider"
    /\ paused
    /\ \A a \in Addr : ~isProvider[a]
    /\ \E u \in Addr :
          /\ lastSubmissionTime[u] > 0
          /\ now < lastSubmissionTime[u] + cooldownSeconds

PassportAttribute(index) == IF index = 0 THEN "Nationality" ELSE "VisaStatus"

\* The DecryptionCompleted event myCallback emits for a request id: the batch
\* id comes from the context, the attribute is PassportAttribute(0).
DecryptionCompleted(requestId) ==
    [requestId |-> requestId,
     batchId |-> decryptionContexts[requestId].batchId,
     attribute |-> PassportAttribute(0)]

\* C32: the completion notification for a context carries the attribute kind
\* of the request that created the context, Nationality for
\* requestVerifyNationality and VisaStatus for requestVerifyVisaStatus,
\* together with the context's batchId.
C32_CompletionEchoesAttribute ==
    [][(result'.err = "ok" /\ result'.event = "DecryptionRequested")
          => \A a \in Attributes, s \in Addr, u \in Addr, b \in ForBatchIds, q \in Handles :
                requestVerify(a, s, u, b, q)
                   => /\ DecryptionCompleted(requestCounter)'.attribute = a
                      /\ DecryptionCompleted(requestCounter)'.batchId = b]_vars

\* C33: contexts with different request ids are independent under any order
\* of callback delivery: a callback for one id, accepted or rejected, leaves
\* every other context unchanged and with it the outcome of any callback for
\* the other id, so each outcome is the same whichever is delivered first.
C33_CallbacksIndependent ==
    [][result'.op = "myCallback"
          => \A s \in Addr, r \in ReqIds, ok \in BOOLEAN :
                myCallback(s, r, ok)
                   => \A r2 \in ReqIds \ {r} :
                         /\ decryptionContexts'[r2] = decryptionContexts[r2]
                         /\ \A ok2 \in BOOLEAN :
                               myCallbackRevert(r2, ok2)' = myCallbackRevert(r2, ok2)]_vars

\* C33 witness: two contexts are pending and callbacks have been delivered
\* for both of them.
C33_Witness ==
    /\ requestCounter = 2
    /\ Pending(0)
    /\ Pending(1)
    /\ delivered[0] >= 1
    /\ delivered[1] >= 1
    /\ decryptionContexts[0].stateHash # 0
    /\ decryptionContexts[1].stateHash # 0
    /\ result.op = "myCallback"
\* C34: the outcome of a callback for a request id and a proof depends only
\* on that id's context and on the proof check: it is the same for every
\* caller, and no step that leaves the contexts alone (pausing, changing the
\* provider set or the owner, setCooldown, openNewBatch, closeCurrentBatch,
\* the passing of time) changes the outcome of any callback.
C34_CallbackOutcomeFromContextOnly ==
    /\ [][result'.op = "myCallback"
             => \A s \in Addr, r \in ReqIds, ok \in BOOLEAN :
                   myCallback(s, r, ok)
                      => \A s2 \in Addr :
                            /\ result'.err \notin {"Paused", "NotProvider", "NotOwner",
                                                   "CooldownActive"}
                            /\ myCallback(s2, r, ok)]_vars
    /\ [][decryptionContexts' = decryptionContexts
             => \A r \in ReqIds, ok \in BOOLEAN :
                   myCallbackRevert(r, ok)' = myCallbackRevert(r, ok)]_vars

\* C34 witness: a callback for the pending request was answered while the
\* contract is paused, no address is a provider, the owner, the cooldown and
\* the current batch have changed and time has passed since the request.
C34_Witness ==
    /\ result.op = "myCallback"
    /\ Pending(0)
    /\ delivered[0] >= 1
    /\ result.err = myCallbackRevert(0, TRUE)
    /\ paused
    /\ \A a \in Addr : ~isProvider[a]
    /\ owner # Deployer
    /\ cooldownSeconds # DefaultCooldown
    /\ now > lastDecryptionRequestTime[OutstandingUser]
    /\ batches[currentBatchId].createdAt > lastDecryptionRequestTime[OutstandingUser]
\* A batch that was still open when openNewBatch moved currentBatchId past it.
Superseded(b) == b < currentBatchId /\ batches[b].isOpen

\* C35: a batch still open when openNewBatch supersedes it is never closed
\* afterwards: every step leaves it open and below currentBatchId, every
\* requestVerify* against it fails, with BatchNotClosed once past the
\* modifiers, and no decryption context is ever created for it.
C35_SupersededBatchStaysOpen ==
    /\ [][\A b \in StoredBatchIds :
             Superseded(b) => (Superseded(b)' /\ batches'[b] = batches[b])]_vars
    /\ [][result'.op \in RequestOps
             => \A a \in Attributes, s \in Addr, u \in Addr, b \in StoredBatchIds,
                   q \in Handles :
                   (Superseded(b) /\ requestVerify(a, s, u, b, q))
                      => /\ result'.err # "ok"
                         /\ PastRequestModifiers(s, u) => result'.err = "BatchNotClosed"]_vars
    /\ [](\A r \in ReqIds :
             r < requestCounter => ~Superseded(decryptionContexts[r].batchId))

\* C35 witness: a batch holding a submission is open below currentBatchId and
\* a requestVerify* has just failed with BatchNotClosed.
C35_Witness ==
    /\ result.op \in RequestOps
    /\ result.err = "BatchNotClosed"
    /\ \E b \in StoredBatchIds :
          /\ Superseded(b)
          /\ hasSubmittedForBatch[b][OracleUser]
          /\ \A c \in StoredBatchIds \ {b} : ~batches[c].isOpen

\* The id closeCurrentBatch reserved: at most current and never opened.
Reserved(b) == b <= currentBatchId /\ batches[b] = ZeroBatch

\* C36: closeCurrentBatch of batch n leaves currentBatchId at n+1 with that id
\* unopened, openNewBatch opens the id after the current one, and an id that
\* was reserved that way stays unopened for ever, isOpen = false and
\* createdAt = 0, with no submissions, while a requestVerify* against it that
\* passes the modifiers fails with NotInitialized.
C36_ReservedIdNeverOpened ==
    /\ [][(result'.op = "closeCurrentBatch" /\ result'.err = "ok")
             => \A s \in Addr :
                   closeCurrentBatch(s)
                      => /\ currentBatchId' = currentBatchId + 1
                         /\ ~batches'[currentBatchId].isOpen
                         /\ Reserved(currentBatchId)']_vars
    /\ [][(result'.op = "openNewBatch" /\ result'.err = "ok")
             => \A s \in Addr :
                   openNewBatch(s)
                      => /\ currentBatchId' = currentBatchId + 1
                         /\ batches'[currentBatchId + 1].isOpen
                         /\ batches'[currentBatchId] = batches[currentBatchId]]_vars
    /\ [][\A b \in StoredBatchIds : Reserved(b) => Reserved(b)']_vars
    /\ [](\A b \in StoredBatchIds :
             Reserved(b) => \A u \in Addr :
                               /\ ~hasSubmittedForBatch[b][u]
                               /\ submitted[b][u] = 0)
    /\ [][result'.op \in RequestOps
             => \A a \in Attributes, s \in Addr, u \in Addr, b \in StoredBatchIds,
                   q \in Handles :
                   (Reserved(b) /\ PastRequestModifiers(s, u)
                      /\ requestVerify(a, s, u, b, q))
                      => result'.err = "NotInitialized"]_vars

\* C36 witness: openNewBatch has moved past a reserved id, which is below the
\* open current batch and was never opened, and a requestVerify* has just
\* failed with NotInitialized.
C36_Witness ==
    /\ result.op \in RequestOps
    /\ result.err = "NotInitialized"
    /\ batches[currentBatchId].isOpen
    /\ \E b \in StoredBatchIds :
          /\ b < currentBatchId
          /\ Reserved(b)
          /\ \A c \in StoredBatchIds : (c < b) => hasSubmittedForBatch[c][OracleUser]

====
